---- MODULE Spec2Model ----
(***************************************************************************)
(* JustStreamIt front end: the page fetcher, the genre aggregator, the     *)
(* movie page aggregator, the card / image fallback renderer and the       *)
(* category orchestrator, as state machines.                               *)
(*                                                                         *)
(* Two generations of the category code live in the repository:            *)
(*   impl = "categories"  : categories.js + api.js (src/unnamed/part_000), *)
(*                          the modules main.js imports;                   *)
(*   impl = "html_inject" : html_inject.js + fecth_functions.js.           *)
(* Both are modelled; impl is fixed by Init and never changes.             *)
(***************************************************************************)
EXTENDS Integers, Sequences, FiniteSets, TLC

\* ------------------------------------------------------------------ bounds
MaxCount == 10          \* largest movieCount a load is asked for
MaxTotal == 12          \* largest number of movies the backend holds for a query
PageSpread == 1         \* backend page sizes MoviesPerPage-PageSpread .. MoviesPerPage+PageSpread
MaxSelects == 2         \* genre selections made in a category session
CatFaults == 1          \* failed or malformed answers during a category session
MaxGenres == 5          \* largest number of genres the backend holds
GenresPerPage == 1      \* backend: genres per genres page
MaxMaxPages == 3        \* largest explicit maxPages fetchGenres is called with
MaxFailures == 3        \* image load failures followed on one element
MaxFaults == 2          \* failed or malformed answers during a bootstrap
MaxShows == 3           \* details-button clicks of a modal session
MaxChars == 3           \* longest box-office string formatted
MaxSteps == 30          \* box-office numbers formatted: multiples of 50,000 up to MaxSteps of them

\* ------------------------------------------------------- program constants
MoviesPerPage == 5      \* the 5 of Math.ceil(movieCount / 5)
DefaultMovieCount == 6  \* movieCount = 6
DefaultMaxPages == 5    \* fetchGenres(maxPages = 5); page <= 5 in fecth_functions.js

Impls == {"categories", "html_inject"}

VARIABLES
    impl,       \* which generation of the category code runs
    template,   \* whether the document holds #movie-card-template
    pageSize,   \* backend: movies per titles page
    avail,      \* backend: query -> number of movies it holds
    ngenres,    \* backend: number of genres it holds
    loads,      \* load id -> the load (a displayCategoryMovies call and its requests)
    dom,        \* the category containers appended to .categories, in order
    grid,       \* category -> the cards of its .movies-grid
    button,     \* category -> its show-more button {textContent, dataset.expanded}
    selected,   \* category -> the value its genre <select> shows
    finished,   \* the load that completed last, as it ended
    last,       \* the handler that ran last
    budget,     \* how many more requests may fail or be answered malformed
    gen,        \* the fetchGenres call
    boot,       \* initializeCategories' position
    img,        \* the image element under observation
    call,       \* the last call made to the API module and what it gave back
    banner,     \* the loadBestMovie call and the .best-movie slots
    modal,      \* the MovieModal instance, its overlays and the body's scroll lock
    fmt         \* the last formatBoxOffice call: its argument and what it returned

envVars == <<impl, template, pageSize, avail, ngenres>>
loadVars == <<loads, dom, grid, button, selected, finished>>
vars == <<impl, template, pageSize, avail, ngenres, loads, dom, grid, button, selected,
          finished, last, budget, gen, boot, img, call, banner, modal, fmt>>

\* ------------------------------------------------------------ value shapes
\* What a page fetch yields to its caller: null, or the parsed body.  A body is
\* an envelope {results, next}; hasResults = FALSE is a body with no results
\* field.  null and undefined are both this Null (callers only test falsiness).
Null == [ok |-> FALSE, hasResults |-> FALSE, results |-> <<>>, next |-> FALSE]
Envelope(rs, nx) == [ok |-> TRUE, hasResults |-> TRUE, results |-> rs, next |-> nx]
NoResultsBody == [ok |-> TRUE, hasResults |-> FALSE, results |-> <<>>, next |-> FALSE]

Min(a, b) == IF a < b THEN a ELSE b
Max(a, b) == IF a > b THEN a ELSE b

\* Math.ceil(n / d) for n >= 0, d > 0
Ceil(n, d) == (n + d - 1) \div d

\* Array.prototype.slice(0, n) for n >= 0
Slice(s, n) == SubSeq(s, 1, Min(n, Len(s)))

RECURSIVE Flatten(_)
Flatten(ss) == IF ss = <<>> THEN <<>> ELSE Head(ss) \o Flatten(Tail(ss))

\* ----------------------------------------------------------------- backend
\* The titles endpoint: for query q it holds the movies 1..total, served in
\* pages of ps; a page past the end is an empty page.
Movie(q, i) == [q |-> q, idx |-> i]
BackendPage(q, total, ps, p) ==
    [k \in 1..Max(0, Min(ps, total - (p - 1) * ps)) |-> Movie(q, (p - 1) * ps + k)]
BackendNext(total, ps, p) == p * ps < total

\* What one HTTP exchange can do.
FetchOutcomes == {"neterr", "http", "parse", "json"}

\* ------------------------------------------------------------ page fetcher
\* fetchPage: the try block returns the parsed body; a rejected fetch, a
\* non-ok status (throw) and a rejected json() all land in the catch, which
\* returns null.
fetchPageNoCatch(outcome, body) ==
    IF outcome = "json" THEN [rejected |-> FALSE, value |-> body]
    ELSE [rejected |-> TRUE, value |-> Null]

fetchPage(outcome, body) ==
    IF outcome = "json" THEN [rejected |-> FALSE, value |-> body]
    ELSE [rejected |-> FALSE, value |-> Null]

\* fetchMovies (api.js) / fetchTitles (fecth_functions.js): fetchPage behind a
\* try/catch of their own; the catch yields null / undefined.
fetchMovies(outcome, body) ==
    LET r == fetchPage(outcome, body)
    IN  IF r.rejected THEN [rejected |-> FALSE, value |-> Null] ELSE r

fetchTitles(outcome, body) ==
    LET r == fetchPage(outcome, body)
    IN  IF r.rejected THEN [rejected |-> FALSE, value |-> Null] ELSE r

\* fetchMovieDetails: fetch, ok test, json(), then console.log(data.title),
\* which throws on a null body; everything is caught and yields null.
fetchMovieDetails(outcome, body) ==
    IF outcome = "json" /\ body.ok THEN [rejected |-> FALSE, value |-> body]
    ELSE [rejected |-> FALSE, value |-> Null]

\* ------------------------------------------------------- movie aggregator
\* A load is one call of displayCategoryMovies / displayCategory.  Its page
\* requests are the slots of `responses`, one per page 1..pagesNeeded.
PendingSlot == [settled |-> FALSE, value |-> Null]
pagesNeededFloor(movieCount) == movieCount \div MoviesPerPage

\* const pagesNeeded = Math.ceil(movieCount / 5)
pagesNeeded(movieCount) == Ceil(movieCount, MoviesPerPage)

\* Promise.all: the value of the promise pushed for page p lands at index p.
StoreByArrival(responses, page, value) ==
    LET k == Cardinality({i \in 1..Len(responses) : responses[i].settled}) + 1
    IN  [responses EXCEPT ![k] = [settled |-> TRUE, value |-> value]]

StoreResponse(responses, page, value) ==
    [responses EXCEPT ![page] = [settled |-> TRUE, value |-> value]]

Values(responses) == [i \in 1..Len(responses) |-> responses[i].value]

CombineAllOrNothing(values) ==
    IF \A i \in 1..Len(values) : values[i].ok /\ values[i].hasResults
    THEN Flatten([i \in 1..Len(values) |-> values[i].results])
    ELSE <<>>

\* responses.forEach(r => { if (r && r.results) allMovies = allMovies.concat(r.results) })
Combine(values) ==
    Flatten([i \in 1..Len(values) |->
        IF values[i].ok /\ values[i].hasResults THEN values[i].results ELSE <<>>])

fetchMultiplePagesNoSlice(values, movieCount) == Combine(values)

\* fetchMultiplePages after its await: combine, then slice(0, movieCount)
fetchMultiplePages(values, movieCount) == Slice(Combine(values), movieCount)

\* createMovieCard: a card for the movie, collapsed (no show-all class), or
\* null when the document has no #movie-card-template.  NullCard stands for
\* that null.
NullCard == [movie |-> [q |-> "null", idx |-> 0], showAll |-> FALSE]
createMovieCard(movie) ==
    IF template THEN [movie |-> movie, showAll |-> FALSE] ELSE NullCard
RenderCards(movies) == [i \in 1..Len(movies) |-> createMovieCard(movies[i])]

\* movies.forEach(movie => { const card = createMovieCard(movie);
\*                           if (card) container.appendChild(card) })
AppendCards(cards) == SelectSeq(cards, LAMBDA card : card # NullCard)

\* displayCategoryMovies (categories.js) after its await.  g is the grid's
\* content, found says whether querySelector finds the container.
displayCategoryMovies(values, movieCount, found, g) ==
    LET movies == fetchMultiplePages(values, movieCount)
    IN  IF Len(movies) = 0 THEN [outcome |-> "empty", grid |-> g, movies |-> movies]
        ELSE IF ~found THEN [outcome |-> "nocontainer", grid |-> g, movies |-> movies]
        ELSE [outcome |-> "rendered", grid |-> AppendCards(RenderCards(movies)), movies |-> movies]

\* displayCategory (html_inject.js) after its await: the first response is
\* checked before anything is combined.  The container is emptied, then
\* container.appendChild(createMovieCard(movie)) runs unchecked: with a null
\* card it throws a TypeError out of displayCategory.
displayCategory(values, movieCount, found, g) ==
    IF Len(values) = 0 \/ ~values[1].ok \/ ~values[1].hasResults
    THEN [outcome |-> "failed", grid |-> g, movies |-> <<>>]
    ELSE LET movies == Slice(Combine(values), movieCount)
             cards == RenderCards(movies)
         IN  IF ~found THEN [outcome |-> "nocontainer", grid |-> g, movies |-> movies]
             ELSE IF \E i \in 1..Len(cards) : cards[i] = NullCard
             THEN [outcome |-> "threw", grid |-> <<>>, movies |-> movies]
             ELSE [outcome |-> "rendered", grid |-> cards, movies |-> movies]

displayWithoutClearing(im, values, movieCount, found, g) ==
    LET r == IF im = "categories" THEN displayCategoryMovies(values, movieCount, found, g)
             ELSE displayCategory(values, movieCount, found, g)
    IN  IF r.outcome = "rendered" THEN [r EXCEPT !.grid = g \o r.grid] ELSE r

display(im, values, movieCount, found, g) ==
    IF im = "categories" THEN displayCategoryMovies(values, movieCount, found, g)
    ELSE displayCategory(values, movieCount, found, g)

\* -------------------------------------------------------------- categories
\* The categories array of initializeCategories / injectCategories, in its
\* declared order.  A category is named by its index in it.
NumCategories == 5
CatIds == 1..NumCategories
CatType(c) == IF c <= 3 THEN "fixed" ELSE "dropdown"
CatName(c) ==
    CASE c = 1 -> "top-rated" [] c = 2 -> "mystery" [] c = 3 -> "action"
      [] c = 4 -> "dropdown-1" [] OTHER -> "dropdown-2"

\* The genres endpoint serves these names, in this order.
GenreNames == <<"Action", "Mystery", "Drama", "Comedy", "Horror", "Sci-Fi", "War">>
GenreQuery(g) == "genre=" \o g \o "&sort_by=-imdb_score"
FixedQuery(im, c) ==
    CASE c = 1 -> "sort_by=-imdb_score"
      [] c = 2 -> IF im = "categories" THEN "genre=Mystery&sort_by=-imdb_score" ELSE "genre=Mystery"
      [] OTHER -> IF im = "categories" THEN "genre=Action&sort_by=-imdb_score" ELSE "genre=Action"
Queries ==
    {FixedQuery(im, c) : im \in Impls, c \in 1..3}
        \cup {GenreQuery(GenreNames[i]) : i \in 1..Len(GenreNames)}

LoadIds == 1..Max(MaxSelects, NumCategories)

\* the category and the query the single-load and single-call checks use
AggCat == 1
AggQuery == FixedQuery("categories", AggCat)

IdleLoad ==
    [state |-> "idle", cat |-> 1, kind |-> "none", query |-> "", count |-> 0,
     responses |-> <<>>, inflight |-> {}, outcome |-> "none", movies |-> <<>>]
\* what is left of a load once it has run to its end
DoneLoad == [IdleLoad EXCEPT !.state = "done"]
NewLoadOnePageMore(cat, kind, query, count) ==
    [state |-> "waiting", cat |-> cat, kind |-> kind, query |-> query, count |-> count,
     responses |-> [p \in 1..(pagesNeeded(count) + 1) |-> PendingSlot],
     inflight |-> 1..(pagesNeeded(count) + 1), outcome |-> "none", movies |-> <<>>]
NewLoad(cat, kind, query, count) ==
    [state |-> "waiting", cat |-> cat, kind |-> kind, query |-> query, count |-> count,
     responses |-> [p \in 1..pagesNeeded(count) |-> PendingSlot],
     inflight |-> 1..pagesNeeded(count), outcome |-> "none", movies |-> <<>>]

\* createShowMoreButton's button; html_inject.js builds none.
NewButton == [text |-> "Voir plus", expanded |-> "unset"]
NoButton == [text |-> "none", expanded |-> "unset"]
\* The handler that ran last: which, for which load and category, whether it
\* ran a load to its end, whether the category's show-more button was
\* expanded when it started, and the page whose answer it handled.
NoEvent ==
    [ev |-> "none", load |-> 0, cat |-> 0, page |-> 0, completed |-> FALSE,
     wasExpanded |-> FALSE]
Event(ev, l, c, done) ==
    [ev |-> ev, load |-> l, cat |-> c, page |-> 0, completed |-> done,
     wasExpanded |-> IF c \in CatIds THEN button[c].expanded = "true" ELSE FALSE]

Range(s) == {s[i] : i \in 1..Len(s)}

\* ------------------------------------------------------------ orchestrator
\* The part of the state the category code reads and writes, as one record, so
\* that a handler and the continuations it runs into compose.
World ==
    [loads |-> loads, dom |-> dom, grid |-> grid, button |-> button,
     selected |-> selected, finished |-> finished, boot |-> boot]
SetWorld(W) ==
    /\ loads' = W.loads
    /\ dom' = W.dom
    /\ grid' = W.grid
    /\ button' = W.button
    /\ selected' = W.selected
    /\ finished' = W.finished
    /\ boot' = W.boot

\* initializeCategories' position: idx is the category its loop is at,
\* loaded lists the categories whose awaited create call has returned.
IdleBoot == [pc |-> "idle", idx |-> 0, availableGenres |-> <<>>, loaded |-> <<>>]

\* availableGenres[i] || availableGenres[j], indices as in the source (0-based);
\* "undefined" when both are past the end.
GenreAt(genres, i) == IF i + 1 <= Len(genres) THEN genres[i + 1] ELSE "undefined"
OrElse(a, b) == IF a # "undefined" THEN a ELSE b
defaultGenre(im, genres, c) ==
    IF im = "categories"
    THEN IF c = 4 THEN OrElse(GenreAt(genres, 2), GenreAt(genres, 0))
                  ELSE OrElse(GenreAt(genres, 3), GenreAt(genres, 1))
    ELSE IF c = 4 THEN GenreAt(genres, 2) ELSE GenreAt(genres, 3)

\* for (const category of categories) { await create...Category(...) }: the
\* loop goes on to the next category only when the awaited call has returned.
NoAwait(c) == FALSE
AwaitsLoad(c) == TRUE

\* createGenreDropdown reads defaultGenre.value inside genres.forEach: with a
\* non-empty list and an undefined default it throws a TypeError.
DropdownThrows(genres, dg) == Len(genres) > 0 /\ dg = "undefined"

RECURSIVE ContinueBoot(_, _)
\* createFixedCategory / createDropdownCategory up to their await (and the
\* body of injectCategories' loop): build the container, append it to
\* .categories, issue the initial load.
CreateCategory(W, c) ==
    LET genres == W.boot.availableGenres
        dg == defaultGenre(impl, genres, c)
        query == IF CatType(c) = "fixed" THEN FixedQuery(impl, c) ELSE GenreQuery(dg)
        W1 == [W EXCEPT
                 !.dom = Append(@, c),
                 !.grid[c] = <<>>,
                 !.button[c] = IF impl = "categories" THEN NewButton ELSE NoButton,
                 !.selected[c] = IF CatType(c) = "dropdown" THEN dg ELSE @,
                 !.loads[c] = NewLoad(c, "initial", query, DefaultMovieCount),
                 !.boot.idx = c]
    IN  IF CatType(c) = "dropdown" /\ DropdownThrows(genres, dg)
        THEN [W EXCEPT !.boot.pc = "threw", !.boot.idx = c]
        ELSE IF AwaitsLoad(c) THEN W1 ELSE ContinueBoot(W1, c)

\* The loop of initializeCategories after category k (0: before the first).
ContinueBoot(W, k) ==
    IF k = NumCategories THEN [W EXCEPT !.boot.pc = "done"]
    ELSE CreateCategory(W, k + 1)

\* A callback that leaves the button and the cards as they are.
NoReset(W, c) == W

\* The genre-change callback after its await (categories.js): the show-more
\* button is relabelled and every card of the grid loses show-all.
ResetShowMore(W, c) ==
    [W EXCEPT !.button[c] = [text |-> "Voir plus", expanded |-> "false"],
              !.grid[c] = [i \in 1..Len(@) |-> [@[i] EXCEPT !.showAll = FALSE]]]

\* The grid a load's selector names when the load looks it up, after its
\* await: .category-<id> .movies-grid, except html_inject.js's fixed
\* categories, which use .category-section:last-child .movies-grid.
TargetCat(d, c, kind) ==
    IF impl = "html_inject" /\ kind = "initial" /\ CatType(c) = "fixed" /\ Len(d) > 0
    THEN d[Len(d)] ELSE c

OnlyLatestSelection(W, ld) ==
    ld.kind # "select" \/ ld.query = GenreQuery(W.selected[ld.cat])

\* displayCategoryMovies / displayCategory render what they fetched into the
\* container without looking at the category's current selection: nothing
\* marks a load as superseded.
Overwrites(W, ld) == TRUE

\* Everything that runs once the last page promise of load l has settled:
\* displayCategoryMovies' continuation, then its caller's.  When the display
\* call throws, its caller's await throws in turn: the category loop ends
\* there, a genre callback just ends.
CompleteLoad(W, l) ==
    LET ld == W.loads[l]
        c == TargetCat(W.dom, ld.cat, ld.kind)
        eff == IF Overwrites(W, ld)
               THEN display(impl, Values(ld.responses), ld.count, c \in Range(W.dom), W.grid[c])
               ELSE [outcome |-> "superseded", grid |-> W.grid[c],
                     movies |-> fetchMultiplePages(Values(ld.responses), ld.count)]
        W1 == [W EXCEPT !.loads[l] = DoneLoad,
                        !.finished = [ld EXCEPT !.state = "done",
                                                !.outcome = eff.outcome,
                                                !.movies = eff.movies],
                        !.grid[c] = eff.grid]
        W2 == IF ld.kind = "initial" THEN [W1 EXCEPT !.boot.loaded = Append(@, ld.cat)] ELSE W1
    IN  CASE eff.outcome = "threw" ->
               IF ld.kind = "initial" THEN [W1 EXCEPT !.boot.pc = "threw"] ELSE W1
          [] ld.kind = "select" /\ impl = "categories" -> ResetShowMore(W2, c)
          [] ld.kind = "initial" /\ AwaitsLoad(ld.cat) -> ContinueBoot(W2, ld.cat)
          [] OTHER -> W2

\* A call of displayCategoryMovies / displayCategory: every page request is
\* issued before the await; with no page to wait for it runs on at once.
StartLoad(W, l, c, kind, query, count) ==
    LET W1 == [W EXCEPT !.loads[l] = NewLoad(c, kind, query, count)]
    IN  IF pagesNeeded(count) = 0 THEN CompleteLoad(W1, l) ELSE W1

\* The bodies a titles request can be answered with: the page the backend
\* holds, or a body that is no envelope.
TitlesBody(q, p) == Envelope(BackendPage(q, avail[q], pageSize, p), BackendNext(avail[q], pageSize, p))
fetchTitlesPage(im, outcome, body) ==
    IF im = "categories" THEN fetchMovies(outcome, body).value ELSE fetchTitles(outcome, body).value

\* A failed or malformed answer draws on the budget of faults.
Spend(fault) ==
    /\ fault => budget > 0
    /\ budget' = IF fault THEN budget - 1 ELSE budget

\* The response to page p of load l arrives: its promise settles, and once
\* all have, the load runs to its end.
Respond(l, p) ==
    /\ loads[l].state = "waiting"
    /\ p \in loads[l].inflight
    /\ \E outcome \in FetchOutcomes, body \in {TitlesBody(loads[l].query, p), NoResultsBody} :
         LET v == fetchTitlesPage(impl, outcome, body)
             fault == outcome # "json" \/ body = NoResultsBody
             W1 == [World EXCEPT
                      !.loads[l].responses = StoreResponse(@, p, v),
                      !.loads[l].inflight = @ \ {p}]
             done == W1.loads[l].inflight = {}
         IN  /\ Spend(fault)
             /\ SetWorld(IF done THEN CompleteLoad(W1, l) ELSE W1)
             /\ last' = [Event("respond", l, loads[l].cat, done) EXCEPT !.page = p]
    /\ UNCHANGED <<envVars, fmt, banner, modal, gen, img, call>>

\* The click listener of createShowMoreButton: every card of the grid gets or
\* loses show-all and the button is relabelled.
showMoreClick(W, c) ==
    LET isExpanded == W.button[c].expanded = "true"
    IN  [W EXCEPT
           !.grid[c] = [i \in 1..Len(@) |-> [@[i] EXCEPT !.showAll = ~isExpanded]],
           !.button[c] = IF isExpanded THEN [text |-> "Voir plus", expanded |-> "false"]
                         ELSE [text |-> "Voir moins", expanded |-> "true"]]

\* The user clicks the show-more button of category c.
Click(c) ==
    /\ c \in Range(dom)
    /\ button[c] # NoButton
    /\ SetWorld(showMoreClick(World, c))
    /\ last' = Event("click", 0, c, FALSE)
    /\ UNCHANGED <<envVars, fmt, banner, modal, budget, gen, img, call>>

\* Each selection of a session gets a load of its own.
FreeSlots == {l \in 1..MaxSelects : loads[l].state = "idle"}

\* The user picks genre g in the dropdown of category c: the change listener
\* finds it in the genre list and calls onSelect, which starts a load into the
\* category's grid.  Nothing cancels a load already in flight.
Select(c, g) ==
    /\ c \in Range(dom)
    /\ CatType(c) = "dropdown"
    /\ g \in Range(boot.availableGenres)
    /\ g # selected[c]
    /\ FreeSlots # {}
    /\ LET l == CHOOSE x \in FreeSlots : \A y \in FreeSlots : x <= y
       IN  SetWorld(StartLoad([World EXCEPT !.selected[c] = g], l, c, "select",
                              GenreQuery(g), DefaultMovieCount))
    /\ last' = Event("select", 0, c, FALSE)
    /\ UNCHANGED <<envVars, fmt, banner, modal, budget, gen, img, call>>

\* initializeCategories / injectCategories is called: fetchGenres() requests
\* the first genres page.
BootStart ==
    /\ boot.pc = "idle"
    /\ gen.pc = "idle"
    /\ boot' = [boot EXCEPT !.pc = "genres"]
    /\ gen' = [pc |-> "waiting", caller |-> "boot", maxPages |-> DefaultMaxPages, page |-> 1,
               allGenres |-> <<>>, fetched |-> <<>>, requested |-> <<1>>]
    /\ last' = Event("initializeCategories", 0, 0, FALSE)
    /\ UNCHANGED <<envVars, fmt, banner, modal, loads, dom, grid, button, selected, finished, budget, img, call>>

\* -------------------------------------------------------- genre aggregator
\* The genres endpoint: page p of the first ngenres names.
GenreBody(n, p) ==
    Envelope([k \in 1..Max(0, Min(GenresPerPage, n - (p - 1) * GenresPerPage)) |->
                 GenreNames[(p - 1) * GenresPerPage + k]],
             p * GenresPerPage < n)
\* a body with a next link and no results field
NextOnlyBody == [ok |-> TRUE, hasResults |-> FALSE, results |-> <<>>, next |-> TRUE]

\* if (data && data.results) allGenres = allGenres.concat(data.results)
concatGenres(allGenres, data) ==
    IF data.ok /\ data.hasResults THEN allGenres \o data.results ELSE allGenres

breakOnNullOnly(data) == ~data.ok

\* if (!data || !data.next) break
genresLoopBreaks(data) == ~data.ok \/ ~data.next

AfterGenresNoCheck(W, genres) ==
    ContinueBoot([W EXCEPT !.boot.pc = "categories", !.boot.availableGenres = genres], 0)

\* initializeCategories / injectCategories once fetchGenres has returned.
AfterGenres(W, genres) ==
    IF Len(genres) = 0 THEN [W EXCEPT !.boot.pc = "nogenres"]
    ELSE ContinueBoot([W EXCEPT !.boot.pc = "categories", !.boot.availableGenres = genres], 0)

\* fetchGenres returns allGenres to its caller.
GenreReturn(g) == [g EXCEPT !.pc = "returned"]

\* fetchGenres(maxPages) is called on its own: the loop's first turn requests
\* page 1, unless maxPages admits no turn at all.  html_inject.js's fetchGenres
\* takes no argument and loops to 5.
GenreCall ==
    /\ gen.pc = "idle"
    /\ \E mp \in IF impl = "categories" THEN (0..MaxMaxPages) \cup {DefaultMaxPages}
                 ELSE {DefaultMaxPages} :
         LET g == [pc |-> "waiting", caller |-> "direct", maxPages |-> mp, page |-> 1,
                   allGenres |-> <<>>, fetched |-> <<>>, requested |-> <<1>>]
         IN  gen' = IF 1 <= mp THEN g
                    ELSE GenreReturn([g EXCEPT !.page = 0, !.requested = <<>>])
    /\ last' = Event("fetchGenres", 0, 0, FALSE)
    /\ UNCHANGED <<envVars, fmt, banner, modal, loadVars, budget, boot, img, call>>

\* The response to the awaited genres page arrives: fetchGenres takes one turn
\* of its loop and either requests the next page or returns; when it returns
\* to initializeCategories, that runs on to its first await.
GenreRespond ==
    /\ gen.pc = "waiting"
    /\ \E outcome \in FetchOutcomes,
          body \in {GenreBody(ngenres, gen.page), NoResultsBody, NextOnlyBody} :
         LET data == fetchPage(outcome, body).value
             fault == outcome # "json" \/ body # GenreBody(ngenres, gen.page)
             g1 == [gen EXCEPT !.allGenres = concatGenres(@, data),
                               !.fetched = Append(@, data)]
             stop == genresLoopBreaks(data) \/ gen.page + 1 > gen.maxPages
             g2 == IF stop THEN GenreReturn(g1)
                   ELSE [g1 EXCEPT !.page = @ + 1, !.requested = Append(@, gen.page + 1)]
         IN  /\ Spend(fault)
             /\ gen' = g2
             /\ IF stop /\ gen.caller = "boot"
                THEN SetWorld(AfterGenres(World, g2.allGenres))
                ELSE UNCHANGED <<loadVars, boot>>
    /\ last' = Event("genres", 0, 0, gen'.pc = "returned")
    /\ UNCHANGED <<envVars, fmt, banner, modal, img, call>>

\* ------------------------------------------------------ calls into api.js
\* A detail record as /titles/{id} serves it.
DetailBody(i) == [ok |-> TRUE, id |-> i, title |-> "title", image_url |-> "url"]

ApiBodies ==
    {TitlesBody(AggQuery, p) : p \in 1..pagesNeeded(MaxCount)}
        \cup {DetailBody(i) : i \in 1..MaxMaxPages}
        \cup {NoResultsBody, NextOnlyBody, Null}

Called(fn, outcome, body, r) ==
    /\ call.fn = "none"
    /\ call' = [fn |-> fn, outcome |-> outcome, body |-> body,
                rejected |-> r.rejected, value |-> r.value]
    /\ last' = Event(fn, 0, 0, TRUE)
    /\ UNCHANGED <<envVars, fmt, banner, modal, loadVars, budget, gen, boot, img>>

CallFetchPage ==
    \E outcome \in FetchOutcomes, body \in ApiBodies :
        Called("fetchPage", outcome, body, fetchPage(outcome, body))
CallFetchMovies ==
    \E outcome \in FetchOutcomes, body \in ApiBodies :
        Called("fetchMovies", outcome, body, fetchMovies(outcome, body))
CallFetchTitles ==
    \E outcome \in FetchOutcomes, body \in ApiBodies :
        Called("fetchTitles", outcome, body, fetchTitles(outcome, body))
CallFetchMovieDetails ==
    \E outcome \in FetchOutcomes, body \in ApiBodies :
        Called("fetchMovieDetails", outcome, body, fetchMovieDetails(outcome, body))

\* ------------------------------------------------------- image fallback
\* An <img> element: its src, the onerror handler installed on it, the
\* errorHandled flag its handler closes over, whether a load (or the error
\* event of an empty src) is pending, and what happened to it so far:
\* attempts lists the sources assigned to src, subs counts the placeholder
\* substitutions its handler made, failures the error events it received.
Titles == {"Alien", "Heat"}
NoUrls == {"null", "undefined", ""}
ImageUrls == NoUrls \cup {"http://poster.jpg"}
NoSrc == [kind |-> "unset", text |-> "", w |-> 0, h |-> 0]
UrlSrc(u) == [kind |-> IF u = "" THEN "empty" ELSE "url", text |-> u, w |-> 0, h |-> 0]
\* createFallbackImageUrl(text, width, height): the data: URI of an SVG of
\* that size showing text
createFallbackImageUrl(text, w, h) == [kind |-> "placeholder", text |-> text, w |-> w, h |-> h]
NoImage ==
    [slot |-> "none", title |-> "", image_url |-> "null", src |-> NoSrc,
     onerror |-> "none", errorHandled |-> FALSE, pending |-> FALSE,
     attempts |-> <<>>, subs |-> 0, failures |-> 0]
\* an assignment to img.src: the browser starts over with the new source
SetSrc(el, src) == [el EXCEPT !.src = src, !.pending = TRUE, !.attempts = Append(@, src)]

\* setupImage(imgElement, imageUrl, altText, width, height)
setupImage(el, imageUrl, altText, w, h) ==
    LET el1 == [el EXCEPT !.errorHandled = FALSE, !.onerror = "guarded"]
    IN  IF imageUrl \notin NoUrls THEN SetSrc(el1, UrlSrc(imageUrl))
        ELSE SetSrc(el1, createFallbackImageUrl(altText, w, h))

\* the onerror handler setupImage installs
onerrorGuarded(el, altText, w, h) ==
    IF ~el.errorHandled
    THEN SetSrc([el EXCEPT !.errorHandled = TRUE, !.onerror = "none", !.subs = @ + 1],
                createFallbackImageUrl(altText, w, h))
    ELSE el

\* createMovieCard (ui-components.js): setupImage(img, movie.image_url, `Affiche ${title}`, 300, 300)
cardImage(el) == setupImage(el, el.image_url, "Affiche " \o el.title, 300, 300)
\* updateBestMovieDisplay: setupImage(imageElement, movie.image_url, `Affiche ${title}`, 225, 338)
bannerImage(el) == setupImage(el, el.image_url, "Affiche " \o el.title, 225, 338)
\* createMovieCard (html_inject.js): the same guard inline, the placeholder
\* showing movie.title
oldCardImage(el) ==
    LET el1 == [el EXCEPT !.errorHandled = FALSE, !.onerror = "guarded"]
    IN  IF el.image_url \notin NoUrls THEN SetSrc(el1, UrlSrc(el.image_url))
        ELSE SetSrc(el1, createFallbackImageUrl(el.title, 300, 300))
\* MovieModal.createModal: poster.src = movie.image_url || '', then an onerror
\* that assigns the 210x315 "Image non disponible" placeholder, unguarded
modalImage(el) ==
    [SetSrc(el, UrlSrc(IF el.image_url \in NoUrls THEN "" ELSE el.image_url))
        EXCEPT !.onerror = "modal"]
onerrorModal(el) ==
    SetSrc([el EXCEPT !.subs = @ + 1], createFallbackImageUrl("Image non disponible", 210, 315))

ImgSlots == {"card", "cardOld", "banner", "modal"}
SlotSize(slot) ==
    CASE slot = "banner" -> <<225, 338>> [] slot = "modal" -> <<210, 315>> [] OTHER -> <<300, 300>>

\* A movie is rendered into the slot.
ImgSetup ==
    /\ img.slot = "none"
    /\ \E slot \in ImgSlots, t \in Titles, u \in ImageUrls :
         LET el == [NoImage EXCEPT !.slot = slot, !.title = t, !.image_url = u]
         IN  img' = CASE slot = "card" -> cardImage(el)
                      [] slot = "cardOld" -> oldCardImage(el)
                      [] slot = "banner" -> bannerImage(el)
                      [] OTHER -> modalImage(el)
    /\ last' = Event("render", 0, 0, TRUE)
    /\ UNCHANGED <<envVars, fmt, banner, modal, loadVars, budget, gen, boot, call>>

\* The pending load succeeds (an empty src never does).
ImgLoad ==
    /\ img.pending
    /\ img.src.kind # "empty"
    /\ img' = [img EXCEPT !.pending = FALSE]
    /\ last' = Event("load", 0, 0, TRUE)
    /\ UNCHANGED <<envVars, fmt, banner, modal, loadVars, budget, gen, boot, call>>

\* The pending load fails, or the src is empty: the element gets an error
\* event and its onerror handler, if any, runs.
ImgError ==
    /\ img.pending
    /\ img.failures < MaxFailures
    /\ LET el == [img EXCEPT !.pending = FALSE, !.failures = @ + 1]
           alt == IF img.slot = "cardOld" THEN img.title ELSE "Affiche " \o img.title
           size == SlotSize(img.slot)
       IN  img' = CASE el.onerror = "guarded" -> onerrorGuarded(el, alt, size[1], size[2])
                    [] el.onerror = "modal" -> onerrorModal(el)
                    [] OTHER -> el
    /\ last' = Event("error", 0, 0, TRUE)
    /\ UNCHANGED <<envVars, fmt, banner, modal, loadVars, budget, gen, boot, call>>

\* ------------------------------------------------------ best-movie banner
\* The detail records /titles/{id} can serve, and the one it does serve.
Descriptions == {"", "text"}
BannerDetails ==
    [ok : {TRUE}, id : {0}, title : Titles \cup {""}, image_url : {"null", "http://poster.jpg"},
     long_description : Descriptions, description : Descriptions]
DefaultDetail ==
    [ok |-> TRUE, id |-> 0, title |-> "Alien", image_url |-> "http://poster.jpg",
     long_description |-> "text", description |-> "text"]

\* The four elements updateBestMovieDisplay looks up.
BannerSlots == {"image", "title", "description", "button"}

\* a || b on strings: the empty string is falsy
OrText(a, b) == IF a # "" THEN a ELSE b

\* The loadBestMovie call (pc, who called it, what it ended with, whether its
\* promise rejected), the backend's detail record, which of the four elements
\* the document holds, and their content.
NoBanner ==
    [pc |-> "idle", caller |-> "none", outcome |-> "none", raised |-> FALSE,
     backend |-> DefaultDetail, slots |-> BannerSlots, requested |-> 0,
     image |-> NoImage, title |-> "prior", description |-> "prior", movieId |-> 0]

updateBestMovieDisplayNoGuard(b, movie) ==
    LET el == [NoImage EXCEPT !.slot = "banner", !.title = movie.title, !.image_url = movie.image_url]
        b1 == IF "image" \in b.slots THEN [b EXCEPT !.image = bannerImage(el)] ELSE b
        b2 == IF "title" \in b.slots THEN [b1 EXCEPT !.title = OrText(movie.title, "Titre inconnu")] ELSE b1
    IN  IF b.slots = BannerSlots
        THEN [b2 EXCEPT !.description = OrText(movie.long_description,
                                           OrText(movie.description, "Aucune description disponible.")),
                        !.movieId = movie.id, !.outcome = "shown"]
        ELSE [(IF "image" \in b.slots THEN b2 ELSE b) EXCEPT !.outcome = "caught"]

\* updateBestMovieDisplay(movie): nothing is touched unless all four elements
\* are found.
updateBestMovieDisplay(b, movie) ==
    IF b.slots # BannerSlots THEN [b EXCEPT !.outcome = "noslots"]
    ELSE LET el == [NoImage EXCEPT !.slot = "banner", !.title = movie.title,
                                   !.image_url = movie.image_url]
         IN  [b EXCEPT !.image = bannerImage(el),
                       !.title = OrText(movie.title, "Titre inconnu"),
                       !.description = OrText(movie.long_description,
                                          OrText(movie.description, "Aucune description disponible.")),
                       !.movieId = movie.id,
                       !.outcome = "shown"]

\* loadBestMovie after its first await: fetch rejecting, a non-ok status and
\* json() rejecting are caught; no data, no results or an empty page returns.
loadBestMovieList(b, outcome, body) ==
    IF outcome # "json" THEN [b EXCEPT !.pc = "done", !.outcome = "caught"]
    ELSE IF ~body.ok \/ ~body.hasResults \/ Len(body.results) = 0
    THEN [b EXCEPT !.pc = "done", !.outcome = "noresults"]
    ELSE [b EXCEPT !.pc = "detail", !.requested = body.results[1].idx]

\* loadBestMovie after await fetchMovieDetails(bestMoviePreview.id).
loadBestMovieDetail(b, bestMovie) ==
    IF ~bestMovie.ok THEN [b EXCEPT !.pc = "done", !.outcome = "nodetail"]
    ELSE [updateBestMovieDisplay(b, bestMovie) EXCEPT !.pc = "done"]

\* The page the banner asks for: page 1 of the titles sorted by score.
BannerQuery == "sort_by=-imdb_score"
BannerBodies ==
    {TitlesBody(BannerQuery, 1), NoResultsBody, Null}

\* initializeCategories' first step, as BootStart takes it.
BootGen ==
    [pc |-> "waiting", caller |-> "boot", maxPages |-> DefaultMaxPages, page |-> 1,
     allGenres |-> <<>>, fetched |-> <<>>, requested |-> <<1>>]

\* initializeApp after await loadBestMovie(): initializeCategories is called.
AfterBanner(b) ==
    IF b.pc = "done" /\ b.caller = "app"
    THEN /\ boot' = [boot EXCEPT !.pc = "genres"]
         /\ gen' = BootGen
    ELSE UNCHANGED <<boot, gen>>

\* loadBestMovie() is called on its own.
BannerCall ==
    /\ banner.pc = "idle"
    /\ banner' = [banner EXCEPT !.pc = "list", !.caller = "direct"]
    /\ last' = Event("loadBestMovie", 0, 0, FALSE)
    /\ UNCHANGED <<envVars, fmt, modal, loadVars, budget, gen, boot, img, call>>

\* initializeApp() runs up to its first await, inside loadBestMovie.
AppStart ==
    /\ banner.pc = "idle"
    /\ boot.pc = "idle"
    /\ banner' = [banner EXCEPT !.pc = "list", !.caller = "app"]
    /\ last' = Event("initializeApp", 0, 0, FALSE)
    /\ UNCHANGED <<envVars, fmt, modal, loadVars, budget, gen, boot, img, call>>

\* The answer to the banner's titles request arrives.
BannerListRespond ==
    /\ banner.pc = "list"
    /\ \E outcome \in FetchOutcomes, body \in BannerBodies :
         LET b == loadBestMovieList(banner, outcome, body)
         IN  /\ Spend(outcome # "json" \/ body # TitlesBody(BannerQuery, 1))
             /\ banner' = b
             /\ AfterBanner(b)
             /\ last' = Event("bannerList", 0, 0, b.pc = "done")
    /\ UNCHANGED <<envVars, fmt, modal, loadVars, img, call>>

\* The answer to the banner's detail request arrives.
BannerDetailRespond ==
    /\ banner.pc = "detail"
    /\ \E outcome \in FetchOutcomes, body \in {[banner.backend EXCEPT !.id = banner.requested], Null} :
         LET b == loadBestMovieDetail(banner, fetchMovieDetails(outcome, body).value)
         IN  /\ Spend(outcome # "json" \/ body = Null)
             /\ banner' = b
             /\ AfterBanner(b)
             /\ last' = Event("bannerDetail", 0, 0, TRUE)
    /\ UNCHANGED <<envVars, fmt, modal, loadVars, img, call>>

\* ------------------------------------------------------------ details modal
\* One showModal call per details click: its movie id and how far it got.
IdleShow == [state |-> "idle", movieId |-> 0]
ShowIds == 1..MaxShows
MovieIds == {Movie(BannerQuery, 1).idx, Movie(BannerQuery, 2).idx}

\* The MovieModal instance (this.modal names overlay k, 0 for null; whether
\* this.template was found), the overlays attached to document.body, and
\* document.body.style.overflow.
NoModal ==
    [thisModal |-> 0, hasTemplate |-> TRUE, shows |-> [k \in ShowIds |-> IdleShow],
     attached |-> {}, overflow |-> ""]

\* closeModal(): only the overlay this.modal names is removed, and only if
\* it is attached.
closeModal(m) ==
    IF m.thisModal # 0 /\ m.thisModal \in m.attached
    THEN [m EXCEPT !.attached = @ \ {m.thisModal}, !.thisModal = 0, !.overflow = ""]
    ELSE m

\* showModal after await fetchMovieDetails(movieId): a null detail returns;
\* createModal throws without a template (caught); otherwise this.modal is
\* the new overlay, appended to the body, and scrolling is locked.
showModalDetail(m, k, movieData) ==
    IF ~movieData.ok THEN [m EXCEPT !.shows[k].state = "nodetail"]
    ELSE IF ~m.hasTemplate THEN [m EXCEPT !.shows[k].state = "caught"]
    ELSE [m EXCEPT !.shows[k].state = "shown",
                   !.thisModal = k,
                   !.attached = @ \cup {k},
                   !.overflow = "hidden"]

\* A click on a details button carrying a movie id: showModal(movieId) runs
\* up to its await.
DetailsClick ==
    /\ \E k \in ShowIds, id \in MovieIds :
         /\ modal.shows[k].state = "idle"
         /\ \A j \in ShowIds : j < k => modal.shows[j].state # "idle"
         /\ modal' = [modal EXCEPT !.shows[k] = [state |-> "waiting", movieId |-> id]]
    /\ last' = Event("details", 0, 0, FALSE)
    /\ UNCHANGED <<envVars, fmt, banner, loadVars, budget, gen, boot, img, call>>

\* The answer to a showModal call's detail request arrives.
ModalRespond ==
    /\ \E k \in ShowIds :
         /\ modal.shows[k].state = "waiting"
         /\ \E outcome \in FetchOutcomes,
               body \in {[DefaultDetail EXCEPT !.id = modal.shows[k].movieId], Null} :
              /\ Spend(outcome # "json" \/ body = Null)
              /\ modal' = showModalDetail(modal, k, fetchMovieDetails(outcome, body).value)
    /\ last' = Event("modalDetail", 0, 0, TRUE)
    /\ UNCHANGED <<envVars, fmt, banner, loadVars, gen, boot, img, call>>

\* A click on the close button or on the overlay of an attached modal: the
\* document's click listener calls closeModal().
ModalCloseClick ==
    /\ modal.attached # {}
    /\ modal' = closeModal(modal)
    /\ last' = Event("closeClick", 0, 0, modal.thisModal # 0)
    /\ UNCHANGED <<envVars, fmt, banner, loadVars, budget, gen, boot, img, call>>

\* The Escape key: the keydown listener calls closeModal() when this.modal
\* is set.
ModalEscape ==
    /\ modal' = IF modal.thisModal # 0 THEN closeModal(modal) ELSE modal
    /\ last' = Event("escape", 0, 0, modal.thisModal # 0)
    /\ UNCHANGED <<envVars, fmt, banner, loadVars, budget, gen, boot, img, call>>

\* ------------------------------------------------------- formatBoxOffice
\* Text is a sequence of characters; a fixed message is one element.
Digits == <<"0", "1", "2", "3", "4", "5", "6", "7", "8", "9">>
DigitChars == Range(Digits)
DigitValue(ch) == CHOOSE d \in 0..9 : Digits[d + 1] = ch

\* the decimal digits of a natural number
RECURSIVE NatToChars(_)
NatToChars(n) ==
    IF n < 10 THEN <<Digits[n + 1]>> ELSE NatToChars(n \div 10) \o <<Digits[(n % 10) + 1]>>

\* Number.prototype.toLocaleString('en-US') of a natural number: groups of
\* three digits separated by commas
RECURSIVE toLocaleString(_)
toLocaleString(n) ==
    IF n < 1000 THEN NatToChars(n)
    ELSE toLocaleString(n \div 1000)
             \o <<",", Digits[((n % 1000) \div 100) + 1], Digits[((n % 100) \div 10) + 1],
                  Digits[(n % 10) + 1]>>

\* (n / 1000000).toFixed(1): millions with one decimal.  An amount halfway
\* between two tenths rounds by the binary value of the quotient: up or down.
toFixed1(n, tieUp) ==
    LET tenths == IF n % 100000 = 50000
                  THEN (n \div 100000) + (IF tieUp THEN 1 ELSE 0)
                  ELSE (n + 50000) \div 100000
    IN  NatToChars(tenths \div 10) \o <<".", Digits[(tenths % 10) + 1]>>

\* The argument: a number (a natural), a string, or null.
NumberAmount(n) == [type |-> "number", n |-> n, chars |-> <<>>]
StringAmount(cs) == [type |-> "string", n |-> 0, chars |-> cs]
NullAmount == [type |-> "null", n |-> 0, chars |-> <<>>]

\* amount.match(/[\d,.]+/): the first maximal run of digits, commas and dots
NumChars == DigitChars \cup {",", "."}
FirstRun(cs) ==
    IF \A i \in 1..Len(cs) : cs[i] \notin NumChars THEN <<>>
    ELSE LET a == CHOOSE i \in 1..Len(cs) :
                      cs[i] \in NumChars /\ \A j \in 1..(i - 1) : cs[j] \notin NumChars
             b == CHOOSE i \in a..Len(cs) :
                      /\ \A j \in a..i : cs[j] \in NumChars
                      /\ (i = Len(cs) \/ cs[i + 1] \notin NumChars)
         IN  SubSeq(cs, a, b)

\* parseFloat of a run of digits (after the commas are removed): its value,
\* NaN for the empty string
RECURSIVE DigitsValue(_)
DigitsValue(cs) ==
    IF cs = <<>> THEN 0 ELSE DigitsValue(SubSeq(cs, 1, Len(cs) - 1)) * 10 + DigitValue(cs[Len(cs)])
parseFloat(cs) ==
    LET lead == CHOOSE k \in 0..Len(cs) :
                    /\ \A i \in 1..k : cs[i] \in DigitChars
                    /\ (k = Len(cs) \/ cs[k + 1] \notin DigitChars)
    IN  [nan |-> lead = 0, n |-> DigitsValue(SubSeq(cs, 1, lead))]

\* the string branch of formatBoxOffice: a number found in the string is
\* printed whole, grouped, with an m after it
formatString(cs, tieUp) ==
    LET num == parseFloat(SelectSeq(FirstRun(cs), LAMBDA ch : ch # ","))
    IN  IF num.nan THEN StringAmount(cs)
        ELSE StringAmount(<<"$">> \o toLocaleString(num.n) \o <<"m">>)

\* formatBoxOffice(amount)
formatBoxOffice(amount, tieUp) ==
    IF amount.type = "null" \/ (amount.type = "number" /\ amount.n = 0)
         \/ (amount.type = "string" /\ amount.chars = <<>>)
    THEN StringAmount(<<"Non renseigné">>)
    ELSE IF amount.type = "string"
    THEN IF amount.chars[1] = "$" THEN amount ELSE formatString(amount.chars, tieUp)
    ELSE IF amount.n >= 1000000
    THEN StringAmount(<<"$">> \o toFixed1(amount.n, tieUp) \o <<"m">>)
    ELSE StringAmount(<<"$">> \o toLocaleString(amount.n))

\* The amounts formatted: numbers around the million and the tenths of a
\* million, the strings over a small alphabet, and the documented examples.
Alphabet == {"$", "5", "0", ",", "a"}
Strings == UNION {[1..n -> Alphabet] : n \in 0..MaxChars}
Amounts ==
    {NumberAmount(j * 50000 + d) : j \in 0..MaxSteps, d \in {0, 1}}
        \cup {NumberAmount(500), NumberAmount(999999), NumberAmount(123456789)}
        \cup {StringAmount(cs) : cs \in Strings}
        \cup {StringAmount(NatToChars(123456789)), NullAmount}

NoFormat == [called |-> FALSE, amount |-> NullAmount, result |-> NullAmount]

\* formatBoxOffice(amount) is called.
FormatCall ==
    /\ ~fmt.called
    /\ \E amount \in Amounts, tieUp \in BOOLEAN :
         fmt' = [called |-> TRUE, amount |-> amount, result |-> formatBoxOffice(amount, tieUp)]
    /\ last' = Event("formatBoxOffice", 0, 0, TRUE)
    /\ UNCHANGED <<envVars, banner, modal, loadVars, budget, gen, boot, img, call>>

\* ------------------------------------------------- specification SpecAgg
\* One call of displayCategoryMovies / displayCategory into an existing grid,
\* for every count, backend size, backend page size and response order.
PreviousCards ==
    << [movie |-> Movie("previous", 1), showAll |-> FALSE],
       [movie |-> Movie("previous", 2), showAll |-> FALSE] >>

IdleGen == [pc |-> "idle", caller |-> "none", maxPages |-> 0, page |-> 0,
            allGenres |-> <<>>, fetched |-> <<>>, requested |-> <<>>]
NoCall == [fn |-> "none", outcome |-> "none", body |-> Null, rejected |-> FALSE, value |-> Null]

InitAgg ==
    /\ impl \in Impls
    /\ pageSize \in (MoviesPerPage - PageSpread)..(MoviesPerPage + PageSpread)
    /\ \E total \in 0..MaxTotal : avail = [q \in Queries |-> IF q = AggQuery THEN total ELSE 0]
    /\ ngenres = 0
    /\ loads = [l \in LoadIds |-> IdleLoad]
    /\ dom = <<AggCat>>
    /\ \E g \in {<<>>, PreviousCards} : grid = [c \in CatIds |-> IF c = AggCat THEN g ELSE <<>>]
    /\ button = [c \in CatIds |-> NoButton]
    /\ selected = [c \in CatIds |-> "undefined"]
    /\ finished = IdleLoad
    /\ last = NoEvent
    /\ budget = pagesNeeded(MaxCount) + DefaultMaxPages
    /\ gen = IdleGen
    /\ boot = IdleBoot
    /\ img = NoImage
    /\ call = NoCall
    /\ fmt = NoFormat
    /\ template = TRUE
    /\ banner = NoBanner
    /\ modal = NoModal

\* displayCategoryMovies(selector, movieCount, query) is called.
AggCall ==
    /\ loads[1].state = "idle"
    /\ \E count \in 0..MaxCount :
         /\ SetWorld(StartLoad(World, 1, AggCat, "call", AggQuery, count))
         /\ last' = Event("call", 1, AggCat, pagesNeeded(count) = 0)
    /\ UNCHANGED <<envVars, fmt, banner, modal, budget, gen, img, call>>

AggRespond == \E p \in 1..pagesNeeded(MaxCount) : Respond(1, p)

NextAgg == AggCall \/ AggRespond
SpecAgg == InitAgg /\ [][NextAgg]_vars

\* ------------------------------------------------------ claims on SpecAgg
Done == finished.state = "done"
PageOk(v) == v.ok /\ v.hasResults
\* the page requests of the finished load that were answered with an envelope
OkPages == {p \in 1..Len(finished.responses) : PageOk(finished.responses[p].value)}
\* the requested pages of the finished load's query that hold at least one movie
HoldingPages ==
    {p \in 1..Len(finished.responses) : (p - 1) * pageSize < avail[finished.query]}
StrictlyIncreasing(ms) == \A i \in 1..(Len(ms) - 1) : ms[i].idx < ms[i + 1].idx
GridMovies(c) == [i \in 1..Len(grid[c]) |-> grid[c][i].movie]

\* C1: the movie list an aggregation produces, and the list of cards it
\* renders, never holds more than the requested count of movies.
C1_LengthAtMostCount ==
    Done =>
        /\ Len(finished.movies) <= finished.count
        /\ finished.outcome = "rendered" => Len(grid[finished.cat]) <= finished.count

\* C1 witness: a finished load whose pages held more movies than asked for,
\* rendered truncated.
C1_Witness ==
    /\ Done
    /\ finished.outcome = "rendered"
    /\ Len(Combine(Values(finished.responses))) > finished.count
    /\ Len(grid[finished.cat]) = finished.count

\* C2 as stated: with a backend page size of 5 the aggregated list has exactly
\* min(count, total available) movies.
C2_Original ==
    (Done /\ pageSize = MoviesPerPage) =>
        Len(finished.movies) = Min(finished.count, avail[finished.query])

\* C2 amended: with a backend page size of 5, and every requested page that
\* holds movies answered with its envelope, the aggregated list has exactly
\* min(count, total available) movies; in every case it has at most
\* min(count, total available).
C2_ExactWhenPagesSucceed ==
    (Done /\ pageSize = MoviesPerPage) =>
        /\ Len(finished.movies) <= Min(finished.count, avail[finished.query])
        /\ HoldingPages \subseteq OkPages =>
             Len(finished.movies) = Min(finished.count, avail[finished.query])

\* C2 witness: two pages of 5 fetched for a count the backend cannot fill.
C2_Witness ==
    /\ Done
    /\ pageSize = MoviesPerPage
    /\ HoldingPages \subseteq OkPages
    /\ Cardinality(HoldingPages) = 2
    /\ avail[finished.query] < finished.count
    /\ Len(finished.movies) = avail[finished.query]

\* C3: when page 1 of a load yields null, the load ends reported failed and
\* leaves the grid as it was: no card of a later page is rendered.
C3_FirstPageNullAborts ==
    [][\A l \in LoadIds :
         (/\ loads[l].state = "waiting"
          /\ loads'[l].state = "done"
          /\ Len(finished'.responses) > 0
          /\ ~finished'.responses[1].value.ok)
         => /\ grid' = grid
            /\ finished'.outcome \in {"failed", "empty"}]_vars

\* C6: whatever the order the responses arrive in, slot p of the responses
\* holds page p's answer and the list is the pages' results in page order.
C6_PageNumberOrder ==
    Done =>
        /\ \A p \in OkPages :
             finished.responses[p].value.results
                 = BackendPage(finished.query, avail[finished.query], pageSize, p)
        /\ StrictlyIncreasing(finished.movies)
        /\ finished.outcome = "rendered" =>
             /\ finished.movies = Slice(Flatten([p \in 1..Len(finished.responses) |->
                    IF p \in OkPages
                    THEN BackendPage(finished.query, avail[finished.query], pageSize, p)
                    ELSE <<>>]), finished.count)
             /\ GridMovies(finished.cat) = finished.movies

\* C6 witness: of two pages, page 1 was answered last, both with movies, and
\* the rendered list starts with page 1's.
C6_Witness ==
    /\ Done
    /\ last.ev = "respond" /\ last.page = 1 /\ Len(finished.responses) = 2
    /\ OkPages = {1, 2}
    /\ finished.outcome = "rendered"
    /\ Len(finished.movies) > pageSize
    /\ finished.movies[1].idx = 1

\* ---------------------------------------------- specification SpecGenres
\* One call of fetchGenres, for every maxPages, genre count and answer.
InitGenres ==
    /\ impl \in Impls
    /\ pageSize = MoviesPerPage
    /\ avail = [q \in Queries |-> 0]
    /\ ngenres \in 0..MaxGenres
    /\ loads = [l \in LoadIds |-> IdleLoad]
    /\ dom = <<>>
    /\ grid = [c \in CatIds |-> <<>>]
    /\ button = [c \in CatIds |-> NoButton]
    /\ selected = [c \in CatIds |-> "undefined"]
    /\ finished = IdleLoad
    /\ last = NoEvent
    /\ budget = pagesNeeded(MaxCount) + DefaultMaxPages
    /\ gen = IdleGen
    /\ boot = IdleBoot
    /\ img = NoImage
    /\ call = NoCall
    /\ fmt = NoFormat
    /\ template = TRUE
    /\ banner = NoBanner
    /\ modal = NoModal

NextGenres == GenreCall \/ GenreRespond
\* A request that was issued is answered or fails: fetch settles.
SpecGenres == InitGenres /\ [][NextGenres]_vars /\ WF_vars(GenreRespond)

\* the pages fetchGenres has been answered for, and whether page k ended the loop
GenreStopsAt(k) == genresLoopBreaks(gen.fetched[k]) \/ k = gen.maxPages
C4_Safety ==
    /\ gen.requested = [i \in 1..Len(gen.requested) |-> i]
    /\ Len(gen.requested) <= gen.maxPages
    /\ gen.pc = "waiting" =>
         /\ Len(gen.requested) = Len(gen.fetched) + 1
         /\ gen.page = Len(gen.requested)
    /\ gen.pc = "returned" => Len(gen.requested) = Len(gen.fetched)
    /\ \A k \in 1..Len(gen.fetched) :
         (~gen.fetched[k].ok \/ ~gen.fetched[k].next) => k = Len(gen.requested)
    /\ gen.pc = "returned" =>
         /\ Len(gen.fetched) > 0 => GenreStopsAt(Len(gen.fetched))
         /\ Len(gen.fetched) = 0 => gen.maxPages = 0
         /\ gen.allGenres = Flatten([k \in 1..Len(gen.fetched) |->
                IF PageOk(gen.fetched[k]) THEN gen.fetched[k].results ELSE <<>>])

\* C4: fetchGenres requests pages 1, 2, ... one at a time, each after the
\* previous answer; it stops after the first page that is null or has a falsy
\* next, or after maxPages pages; it returns the concatenation, in page order,
\* of the results of the pages it fetched; and once called it always returns.
C4_GenreAggregation == []C4_Safety /\ ((gen.pc = "waiting") ~> (gen.pc = "returned"))

\* C4 witness: a call that returned after maxPages pages although the last
\* page still had a next link, with the genres of those pages in order.
C4_Witness ==
    /\ gen.pc = "returned"
    /\ gen.maxPages = 2
    /\ Len(gen.fetched) = 2
    /\ gen.fetched[2].next
    /\ gen.allGenres = <<GenreNames[1], GenreNames[2]>>

\* ------------------------------------------------ specification SpecFetch
\* Calls of the API module's functions, for every way the exchange can go.
InitFetch ==
    /\ impl \in Impls
    /\ pageSize = MoviesPerPage
    /\ \E total \in 0..MaxTotal : avail = [q \in Queries |-> IF q = AggQuery THEN total ELSE 0]
    /\ ngenres = 0
    /\ loads = [l \in LoadIds |-> IdleLoad]
    /\ dom = <<>>
    /\ grid = [c \in CatIds |-> <<>>]
    /\ button = [c \in CatIds |-> NoButton]
    /\ selected = [c \in CatIds |-> "undefined"]
    /\ finished = IdleLoad
    /\ last = NoEvent
    /\ budget = pagesNeeded(MaxCount) + DefaultMaxPages
    /\ gen = IdleGen
    /\ boot = IdleBoot
    /\ img = NoImage
    /\ call = NoCall
    /\ fmt = NoFormat
    /\ template = TRUE
    /\ banner = NoBanner
    /\ modal = NoModal

NextFetch == CallFetchPage \/ CallFetchMovies \/ CallFetchTitles \/ CallFetchMovieDetails
SpecFetch == InitFetch /\ [][NextFetch]_vars

\* C5: no function of the API module propagates a failure: a network error,
\* a non-success status or a JSON parse failure gives null, anything else the
\* parsed body, and the promise is never rejected.
C5_FetchNeverRejects ==
    call.fn # "none" =>
        /\ ~call.rejected
        /\ call.outcome # "json" => call.value = Null
        /\ call.outcome = "json" => call.value = call.body

\* C5 witness: fetchPage answered with a non-success status gave null.
C5_Witness ==
    /\ call.fn = "fetchPage"
    /\ call.outcome = "http"
    /\ ~call.rejected
    /\ call.value = Null

\* ------------------------------------------------ specification SpecImage
\* One image element, from its setup through load successes and failures.
InitImage ==
    /\ impl \in Impls
    /\ pageSize = MoviesPerPage
    /\ avail = [q \in Queries |-> 0]
    /\ ngenres = 0
    /\ loads = [l \in LoadIds |-> IdleLoad]
    /\ dom = <<>>
    /\ grid = [c \in CatIds |-> <<>>]
    /\ button = [c \in CatIds |-> NoButton]
    /\ selected = [c \in CatIds |-> "undefined"]
    /\ finished = IdleLoad
    /\ last = NoEvent
    /\ budget = pagesNeeded(MaxCount) + DefaultMaxPages
    /\ gen = IdleGen
    /\ boot = IdleBoot
    /\ img = NoImage
    /\ call = NoCall
    /\ fmt = NoFormat
    /\ template = TRUE
    /\ banner = NoBanner
    /\ modal = NoModal

NextImage == ImgSetup \/ ImgLoad \/ ImgError
SpecImage == InitImage /\ [][NextImage]_vars

EmbedsTitle(src, t) == src.kind = "placeholder" /\ src.text \in {t, "Affiche " \o t}

\* C7: in every image slot the handler substitutes the placeholder at most
\* once, however many loads fail.
C7_AtMostOneSubstitution == img.subs <= 1

\* C8: an image slot set up for a movie with no image URL has the placeholder
\* showing the movie's title as its source, and no other source was ever
\* assigned to it.
C8_NoUrlGoesStraightToPlaceholder ==
    (img.slot # "none" /\ img.image_url \in NoUrls) =>
        /\ EmbedsTitle(img.src, img.title)
        /\ \A i \in 1..Len(img.attempts) : img.attempts[i].kind = "placeholder"

\* -------------------------------------------------- specification SpecCat
\* A session on one dropdown category after bootstrap: show-more clicks, genre
\* selections and the answers to their page requests, in any interleaving.
\* The backend holds MaxTotal movies for the 1st, 3rd, ... genre and none for
\* the others.
\* The genre list is the shortest with which both generations bootstrap:
\* dropdown-1's default is its 3rd genre.
CatUnderTest == 4
SessionGenres == SubSeq(GenreNames, 1, 3)
InitCat ==
    /\ template = TRUE
    /\ impl \in Impls
    /\ pageSize = MoviesPerPage
    /\ avail = [q \in Queries |->
                  IF \E i \in 1..Len(SessionGenres) : i % 2 = 1 /\ q = GenreQuery(SessionGenres[i])
                  THEN MaxTotal ELSE 0]
    /\ ngenres = Len(SessionGenres)
    /\ loads = [l \in LoadIds |-> IdleLoad]
    /\ dom = [c \in 1..NumCategories |-> c]
    /\ selected = [c \in CatIds |->
                     IF CatType(c) = "dropdown" THEN defaultGenre(impl, SessionGenres, c)
                     ELSE "undefined"]
    /\ \E rendered \in BOOLEAN :
         grid = [c \in CatIds |->
                   IF c = CatUnderTest /\ rendered
                   THEN RenderCards(BackendPage(GenreQuery(selected[c]),
                            avail[GenreQuery(selected[c])], DefaultMovieCount, 1))
                   ELSE <<>>]
    /\ button = [c \in CatIds |-> IF impl = "categories" THEN NewButton ELSE NoButton]
    /\ finished = IdleLoad
    /\ last = NoEvent
    /\ budget = CatFaults
    /\ gen = IdleGen
    /\ boot = [pc |-> "done", idx |-> NumCategories, availableGenres |-> SessionGenres,
               loaded |-> [c \in 1..NumCategories |-> c]]
    /\ img = NoImage
    /\ call = NoCall
    /\ fmt = NoFormat
    /\ banner = NoBanner
    /\ modal = NoModal

CatClick == Click(CatUnderTest)
CatSelect == \E g \in Range(SessionGenres) : Select(CatUnderTest, g)
CatRespond == \E l \in 1..MaxSelects, p \in 1..pagesNeeded(DefaultMovieCount) : Respond(l, p)
NextCat == CatClick \/ CatSelect \/ CatRespond
SpecCat == InitCat /\ [][NextCat]_vars

Collapsed(c) ==
    /\ button[c].text = "Voir plus"
    /\ button[c].expanded = "false"
    /\ \A i \in 1..Len(grid[c]) : ~grid[c][i].showAll

\* C9: when the load of a genre selection finishes, rendered or not, the
\* category's show-more control reads 'Voir plus', its expanded flag is false
\* and no card of its grid carries show-all, whatever they were before.
C9_SelectionResetsShowMore ==
    [][\A l \in LoadIds :
         (/\ loads[l].state = "waiting"
          /\ loads[l].kind = "select"
          /\ button[loads[l].cat] # NoButton
          /\ loads'[l].state = "done")
         => LET c == loads[l].cat
            IN  /\ button'[c].text = "Voir plus"
                /\ button'[c].expanded = "false"
                /\ \A i \in 1..Len(grid'[c]) : ~grid'[c][i].showAll]_vars

\* C9 witness: a selection's load has just finished without rendering, the
\* control was expanded when its last answer arrived, and the category is
\* collapsed with its cards still in the grid.
C9_Witness ==
    /\ last.ev = "respond"
    /\ last.completed
    /\ last.wasExpanded
    /\ finished.kind = "select"
    /\ finished.outcome = "empty"
    /\ Len(grid[finished.cat]) > 0
    /\ Collapsed(finished.cat)

\* ------------------------------------------------- specification SpecBoot
\* initializeCategories / injectCategories from its call to its end.
InitBoot ==
    /\ impl \in Impls
    /\ pageSize = MoviesPerPage
    /\ \E total \in {0, MaxTotal} : avail = [q \in Queries |-> total]
    /\ ngenres \in 0..MaxGenres
    /\ loads = [l \in LoadIds |-> IdleLoad]
    /\ dom = <<>>
    /\ grid = [c \in CatIds |-> <<>>]
    /\ button = [c \in CatIds |-> NoButton]
    /\ selected = [c \in CatIds |-> "undefined"]
    /\ finished = IdleLoad
    /\ last = NoEvent
    /\ budget = MaxFaults
    /\ gen = IdleGen
    /\ boot = IdleBoot
    /\ img = NoImage
    /\ call = NoCall
    /\ fmt = NoFormat
    /\ template = TRUE
    /\ banner = NoBanner
    /\ modal = NoModal

BootRespond == \E l \in CatIds, p \in 1..pagesNeeded(DefaultMovieCount) : Respond(l, p)
NextBoot == BootStart \/ GenreRespond \/ BootRespond
SpecBoot == InitBoot /\ [][NextBoot]_vars

DeclaredOrder == <<"top-rated", "mystery", "action", "dropdown-1", "dropdown-2">>
Waiting == {l \in LoadIds : loads[l].state = "waiting"}

\* C10: the categories are created in the declared order, and category N+1's
\* container is added and its titles requests are issued only once category
\* N's initial load has finished.
C10_SequentialBootstrap ==
    /\ [i \in 1..Len(dom) |-> CatName(dom[i])] = SubSeq(DeclaredOrder, 1, Len(dom))
    /\ boot.loaded = SubSeq(dom, 1, Len(boot.loaded))
    /\ Len(dom) <= Len(boot.loaded) + 1
    /\ \A l \in Waiting :
         /\ loads[l].cat = dom[Len(dom)]
         /\ Len(boot.loaded) = Len(dom) - 1

\* C10 witness: all five containers are on the page, in order, the fifth
\* category's load still in flight and the four before it finished, one of
\* them without the backend answering.
C10_Witness ==
    /\ Len(dom) = NumCategories
    /\ boot.loaded = <<1, 2, 3, 4>>
    /\ Waiting # {}
    /\ budget < MaxFaults

\* ------------------------------------------------------ claims on SpecBoot
\* the n-th genre of the list (1-based), "undefined" past its end
Nth(genres, n) == IF n <= Len(genres) THEN genres[n] ELSE "undefined"
Bootstrapping == boot.pc \in {"categories", "done", "threw"}

\* C11: with a non-empty genre list, dropdown-1 is created with the 3rd genre
\* (the 1st when the list has fewer than 3), dropdown-2 with the 4th (the 2nd
\* when it has fewer than 4), each an element of the list, and the bootstrap
\* does not raise.
C11_DefaultGenres ==
    (Bootstrapping /\ Len(boot.availableGenres) > 0) =>
        /\ boot.pc # "threw"
        /\ \A c \in Range(dom) :
             CatType(c) = "dropdown" =>
                 /\ selected[c] = IF c = 4
                                  THEN OrElse(Nth(boot.availableGenres, 3), Nth(boot.availableGenres, 1))
                                  ELSE OrElse(Nth(boot.availableGenres, 4), Nth(boot.availableGenres, 2))
                 /\ selected[c] \in Range(boot.availableGenres)

\* -------------------------------------------------- specification SpecApp
\* initializeApp (main.js): loadBestMovie, then initializeCategories, with
\* any of their requests failing.  main.js imports categories.js.
InitApp ==
    /\ impl = "categories"
    /\ pageSize = MoviesPerPage
    /\ \E total \in {0, MaxTotal} : avail = [q \in Queries |-> total]
    /\ ngenres \in 0..MaxGenres
    /\ loads = [l \in LoadIds |-> IdleLoad]
    /\ dom = <<>>
    /\ grid = [c \in CatIds |-> <<>>]
    /\ button = [c \in CatIds |-> NoButton]
    /\ selected = [c \in CatIds |-> "undefined"]
    /\ finished = IdleLoad
    /\ last = NoEvent
    /\ budget = MaxFaults
    /\ gen = IdleGen
    /\ boot = IdleBoot
    /\ img = NoImage
    /\ call = NoCall
    /\ fmt = NoFormat
    /\ template = TRUE
    /\ banner = NoBanner
    /\ modal = NoModal

NextApp == AppStart \/ BannerListRespond \/ BannerDetailRespond \/ GenreRespond \/ BootRespond
SpecApp == InitApp /\ [][NextApp]_vars

\* no request of the bootstrap is outstanding
Quiescent ==
    /\ banner.pc = "done"
    /\ gen.pc # "waiting"
    /\ Waiting = {}

\* a category's initial load whose page-1 request was answered with movies
\* has its cards in the category's grid
FirstPageRendered ==
    (/\ finished.state = "done"
     /\ finished.kind = "initial"
     /\ last.ev = "respond"
     /\ last.completed
     /\ PageOk(finished.responses[1].value)
     /\ Len(finished.responses[1].value.results) > 0)
    => /\ finished.cat \in Range(dom)
       /\ finished.outcome = "rendered"
       /\ Len(grid[finished.cat]) > 0
       /\ GridMovies(finished.cat) = finished.movies

\* the category loop, once nothing is outstanding, has created all five
\* categories and ended
LoopRanToEnd ==
    Quiescent => /\ boot.pc = "done"
                 /\ dom = [c \in 1..NumCategories |-> c]

\* C12: whatever requests of the banner and of the categories fail, with a
\* non-empty genre list every category whose own page-1 request succeeds is
\* created and rendered and the category loop runs to its end.
C12_IndependentFailures ==
    (Bootstrapping /\ Len(boot.availableGenres) > 0) =>
        /\ FirstPageRendered
        /\ LoopRanToEnd

\* C12 for genre lists of two or more: the same independence.
C12_IndependentWithTwoGenres ==
    (Bootstrapping /\ Len(boot.availableGenres) >= 2) =>
        /\ FirstPageRendered
        /\ LoopRanToEnd

\* C12 witness: the banner flow failed, a request of one category failed
\* too and left it short, and the last category was nevertheless rendered in
\* full and the loop ended.
C12_Witness ==
    /\ banner.outcome \in {"caught", "noresults", "nodetail"}
    /\ boot.pc = "done"
    /\ \E c \in CatIds : Len(grid[c]) < DefaultMovieCount
    /\ Len(grid[NumCategories]) = DefaultMovieCount
    /\ finished.cat = NumCategories

\* ----------------------------------------------- specification SpecBanner
\* One call of loadBestMovie, for every detail record, every set of banner
\* elements present in the document and every failure of its two requests.
InitBanner ==
    /\ impl = "categories"
    /\ pageSize = MoviesPerPage
    /\ \E total \in {0, MaxTotal} : avail = [q \in Queries |-> total]
    /\ ngenres = 0
    /\ loads = [l \in LoadIds |-> IdleLoad]
    /\ dom = <<>>
    /\ grid = [c \in CatIds |-> <<>>]
    /\ button = [c \in CatIds |-> NoButton]
    /\ selected = [c \in CatIds |-> "undefined"]
    /\ finished = IdleLoad
    /\ last = NoEvent
    /\ budget = MaxFaults
    /\ gen = IdleGen
    /\ boot = IdleBoot
    /\ img = NoImage
    /\ call = NoCall
    /\ fmt = NoFormat
    /\ template = TRUE
    /\ \E d \in BannerDetails, present \in SUBSET BannerSlots :
         banner = [NoBanner EXCEPT !.backend = d, !.slots = present]
    /\ modal = NoModal

NextBanner == BannerCall \/ BannerListRespond \/ BannerDetailRespond
SpecBanner == InitBanner /\ [][NextBanner]_vars

BannerUntouched ==
    /\ banner.image = NoBanner.image
    /\ banner.title = NoBanner.title
    /\ banner.description = NoBanner.description
    /\ banner.movieId = NoBanner.movieId

\* C13: loadBestMovie never rejects; unless it ends having shown the movie,
\* the banner's image, title, description and button id are as they were; when
\* it has, all four come from the detail record of the first page's first
\* movie.
C13_BannerFailSilent ==
    /\ ~banner.raised
    /\ banner.outcome # "shown" => BannerUntouched
    /\ banner.outcome = "shown" =>
         LET d == banner.backend
         IN  /\ banner.pc = "done"
             /\ banner.slots = BannerSlots
             /\ avail[BannerQuery] > 0
             /\ banner.movieId = Movie(BannerQuery, 1).idx
             /\ banner.title = IF d.title = "" THEN "Titre inconnu" ELSE d.title
             /\ banner.description =
                  IF d.long_description # "" THEN d.long_description
                  ELSE IF d.description # "" THEN d.description
                  ELSE "Aucune description disponible."
             /\ banner.image.src =
                  IF d.image_url \in NoUrls
                  THEN createFallbackImageUrl("Affiche " \o d.title, 225, 338)
                  ELSE UrlSrc(d.image_url)

\* C13 witness: both requests succeeded, only the button is missing from the
\* document, and the call ended with the other three elements as they were.
C13_Witness ==
    /\ banner.pc = "done"
    /\ banner.outcome = "noslots"
    /\ banner.slots = BannerSlots \ {"button"}
    /\ BannerUntouched

\* --------------------------------------------- specification SpecTemplate
\* The bootstrap of the categories in a document without
\* #movie-card-template.
InitTemplate ==
    /\ impl \in Impls
    /\ pageSize = MoviesPerPage
    /\ \E total \in {0, MaxTotal} : avail = [q \in Queries |-> total]
    /\ ngenres \in 0..MaxGenres
    /\ loads = [l \in LoadIds |-> IdleLoad]
    /\ dom = <<>>
    /\ grid = [c \in CatIds |-> <<>>]
    /\ button = [c \in CatIds |-> NoButton]
    /\ selected = [c \in CatIds |-> "undefined"]
    /\ finished = IdleLoad
    /\ last = NoEvent
    /\ budget = MaxFaults
    /\ gen = IdleGen
    /\ boot = IdleBoot
    /\ img = NoImage
    /\ call = NoCall
    /\ fmt = NoFormat
    /\ template = FALSE
    /\ banner = NoBanner
    /\ modal = NoModal

NextTemplate == BootStart \/ GenreRespond \/ BootRespond
SpecTemplate == InitTemplate /\ [][NextTemplate]_vars

\* the genre list holds a default genre for both dropdown categories
HasDefaults ==
    \A c \in CatIds :
        CatType(c) = "dropdown" => defaultGenre(impl, boot.availableGenres, c) # "undefined"

\* with the template missing: no display call throws, no card is appended to
\* any grid, and the loop creates and loads every category
SkipsCards ==
    /\ finished.outcome # "threw"
    /\ boot.pc # "threw"
    /\ \A c \in CatIds : grid[c] = <<>>
    /\ (Waiting = {} /\ gen.pc = "returned") =>
          /\ boot.pc = "done"
          /\ boot.loaded = [c \in 1..NumCategories |-> c]

\* C14: with the card template missing the render of a card gives null and
\* the card is skipped: the category's display call does not raise, nothing
\* is appended to its grid, and the categories after it are still created
\* and loaded.
C14_MissingTemplateSkipsCards ==
    (~template /\ Bootstrapping /\ HasDefaults) => SkipsCards

\* C14 for categories.js alone.
C14_SkipsCardsInCategories ==
    (~template /\ impl = "categories" /\ Bootstrapping /\ HasDefaults) => SkipsCards

\* C14 witness: categories.js, template missing, movies fetched for every
\* category, every grid empty and all five categories loaded.
C14_Witness ==
    /\ ~template
    /\ impl = "categories"
    /\ boot.pc = "done"
    /\ boot.loaded = [c \in 1..NumCategories |-> c]
    /\ finished.outcome = "rendered"
    /\ Len(finished.movies) = DefaultMovieCount
    /\ \A c \in CatIds : grid[c] = <<>>

\* ------------------------------------------------ specification SpecModal
\* A session of details clicks, answers to their detail requests and close
\* actions, in any interleaving.
InitModal ==
    /\ impl = "categories"
    /\ pageSize = MoviesPerPage
    /\ avail = [q \in Queries |-> MaxTotal]
    /\ ngenres = 0
    /\ loads = [l \in LoadIds |-> IdleLoad]
    /\ dom = <<>>
    /\ grid = [c \in CatIds |-> <<>>]
    /\ button = [c \in CatIds |-> NoButton]
    /\ selected = [c \in CatIds |-> "undefined"]
    /\ finished = IdleLoad
    /\ last = NoEvent
    /\ budget = MaxFaults
    /\ gen = IdleGen
    /\ boot = IdleBoot
    /\ img = NoImage
    /\ call = NoCall
    /\ fmt = NoFormat
    /\ template = TRUE
    /\ banner = NoBanner
    /\ \E t \in BOOLEAN : modal = [NoModal EXCEPT !.hasTemplate = t]

NextModal == DetailsClick \/ ModalRespond \/ ModalCloseClick \/ ModalEscape
SpecModal == InitModal /\ [][NextModal]_vars

\* C15: at most one modal overlay is attached at any time, page scrolling is
\* locked exactly while one is attached, and a close action taken while a
\* modal is shown leaves no overlay attached and scrolling re-enabled.
C15_ModalScrollLock ==
    /\ Cardinality(modal.attached) <= 1
    /\ modal.overflow = "hidden" <=> modal.attached # {}
    /\ (last.ev \in {"closeClick", "escape"} /\ last.completed) =>
          /\ modal.attached = {}
          /\ modal.overflow = ""

\* every attached overlay is the one this.modal names
AttachedIsThisModal == modal.attached \subseteq {modal.thisModal}

\* C15 as long as no overlay is attached besides the one this.modal names.
C15_HoldsWithoutOverlap == AttachedIsThisModal => C15_ModalScrollLock

\* C15 witness: a modal was shown and a close action removed it, with
\* scrolling re-enabled.
C15_Witness ==
    /\ last.ev = "closeClick"
    /\ last.completed
    /\ \E k \in ShowIds : modal.shows[k].state = "shown"
    /\ modal.attached = {}
    /\ modal.overflow = ""

\* ----------------------------------------------- specification SpecFormat
\* One call of formatBoxOffice on each amount.
InitFormat ==
    /\ impl = "categories"
    /\ pageSize = MoviesPerPage
    /\ avail = [q \in Queries |-> 0]
    /\ ngenres = 0
    /\ loads = [l \in LoadIds |-> IdleLoad]
    /\ dom = <<>>
    /\ grid = [c \in CatIds |-> <<>>]
    /\ button = [c \in CatIds |-> NoButton]
    /\ selected = [c \in CatIds |-> "undefined"]
    /\ finished = IdleLoad
    /\ last = NoEvent
    /\ budget = 0
    /\ gen = IdleGen
    /\ boot = IdleBoot
    /\ img = NoImage
    /\ call = NoCall
    /\ fmt = NoFormat
    /\ template = TRUE
    /\ banner = NoBanner
    /\ modal = NoModal

NextFormat == FormatCall
SpecFormat == InitFormat /\ [][NextFormat]_vars

\* the amount is a number, or a string of digits with no leading zero
IsNumeric(amount) ==
    \/ amount.type = "number"
    \/ /\ amount.type = "string"
       /\ amount.chars # <<>>
       /\ \A i \in 1..Len(amount.chars) : amount.chars[i] \in DigitChars
       /\ amount.chars[1] # "0"
NumericValue(amount) ==
    IF amount.type = "number" THEN amount.n ELSE DigitsValue(amount.chars)

\* what the claim says of a numeric amount v > 0: from a million on, '$',
\* the millions to one decimal (the nearest tenth), 'm'; below, '$' and the
\* amount, with no m
FormattedAsClaimed(v, out) ==
    IF v >= 1000000
    THEN \E tenths \in ((v \div 100000)..((v \div 100000) + 1)) :
            /\ 2 * (tenths * 100000 - v) <= 100000
            /\ 2 * (v - tenths * 100000) <= 100000
            /\ out = <<"$">> \o NatToChars(tenths \div 10) \o <<".", Digits[(tenths % 10) + 1]>> \o <<"m">>
    ELSE /\ out[Len(out)] # "m"
         /\ out[1] = "$"
         /\ SelectSeq(Tail(out), LAMBDA ch : ch # ",") = NatToChars(v)

\* C16: formatBoxOffice returns an amount that starts with '$' unchanged,
\* renders an amount of at least 1,000,000 as '$', the millions with one
\* decimal and 'm', and renders a smaller amount as '$' and the amount with no
\* 'm', whether the amount is a number or a numeric string.
C16_FormatBoxOffice ==
    fmt.called =>
        /\ (fmt.amount.type = "string" /\ fmt.amount.chars # <<>> /\ fmt.amount.chars[1] = "$")
              => fmt.result = fmt.amount
        /\ (IsNumeric(fmt.amount) /\ NumericValue(fmt.amount) > 0)
              => /\ fmt.result.type = "string"
                 /\ FormattedAsClaimed(NumericValue(fmt.amount), fmt.result.chars)

\* C16 for amounts that are numbers or start with '$'.
C16_NumbersAndPrefixed ==
    (fmt.called /\ (fmt.amount.type = "string" =>
                        (fmt.amount.chars # <<>> /\ fmt.amount.chars[1] = "$")))
        => C16_FormatBoxOffice

\* C16 witness: the number 123456789 formatted as $123.5m.
C16_Witness ==
    /\ fmt.called
    /\ fmt.amount = NumberAmount(123456789)
    /\ fmt.result = StringAmount(<<"$", "1", "2", "3", ".", "5", "m">>)

\* ------------------------------------------------------- claims on SpecCat
\* the genre whose movies the grid of category c shows
ShownQueries(c) == {grid[c][i].movie.q : i \in 1..Len(grid[c])}

\* C17: a genre re-fetch is never cancelled or checked against the current
\* selection: whenever a selection's load finishes with movies, the grid shows
\* exactly those movies, whatever the dropdown shows by then.
C17_NoGenerationCheck ==
    (/\ last.ev = "respond"
     /\ last.completed
     /\ finished.kind = "select"
     /\ Len(finished.movies) > 0)
    => GridMovies(finished.cat) = finished.movies

\* C17 witness: two selections were made, every request has settled, the
\* dropdown shows the second genre and the grid shows the movies of the
\* first.
C17_Witness ==
    /\ impl = "categories"
    /\ \A l \in 1..MaxSelects : loads[l].state = "done"
    /\ Waiting = {}
    /\ finished.kind = "select"
    /\ finished.query # GenreQuery(selected[CatUnderTest])
    /\ ShownQueries(CatUnderTest) = {finished.query}
    /\ avail[GenreQuery(selected[CatUnderTest])] > 0

\* ------------------------------------------------- specification SpecExpand
\* One dropdown category from the moment createDropdownCategory has put its
\* container (title, empty grid, show-more button) in the page and is awaiting
\* its initial load: the user clicks the button and picks genres while the
\* initial load and the re-fetches complete in any order.  Every request is
\* answered by the backend (a genre without movies answers with an empty page).
BeforeCatUnderTest ==
    [loads |-> [l \in LoadIds |-> IdleLoad],
     dom |-> [c \in 1..(CatUnderTest - 1) |-> c],
     grid |-> [c \in CatIds |->
                 IF c < CatUnderTest
                 THEN RenderCards(BackendPage(FixedQuery("categories", c),
                          IF c = 3 THEN MaxTotal ELSE 0, DefaultMovieCount, 1))
                 ELSE <<>>],
     button |-> [c \in CatIds |-> IF c < CatUnderTest THEN NewButton ELSE NoButton],
     selected |-> [c \in CatIds |-> "undefined"],
     finished |-> IdleLoad,
     boot |-> [pc |-> "categories", idx |-> CatUnderTest - 1,
               availableGenres |-> SessionGenres,
               loaded |-> [c \in 1..(CatUnderTest - 1) |-> c]]]

InitExpand ==
    /\ impl = "categories"
    /\ template = TRUE
    /\ pageSize = MoviesPerPage
    /\ avail = [q \in Queries |->
                  IF \E i \in 1..Len(SessionGenres) : i % 2 = 1 /\ q = GenreQuery(SessionGenres[i])
                  THEN MaxTotal ELSE 0]
    /\ ngenres = Len(SessionGenres)
    /\ LET W == CreateCategory(BeforeCatUnderTest, CatUnderTest)
       IN  /\ loads = W.loads
           /\ dom = W.dom
           /\ grid = W.grid
           /\ button = W.button
           /\ selected = W.selected
           /\ finished = W.finished
           /\ boot = W.boot
    /\ last = NoEvent
    /\ budget = 0
    /\ gen = IdleGen
    /\ img = NoImage
    /\ call = NoCall
    /\ fmt = NoFormat
    /\ banner = NoBanner
    /\ modal = NoModal

ExpandClick == Click(CatUnderTest)
ExpandSelect == \E g \in Range(SessionGenres) : Select(CatUnderTest, g)
ExpandRespond ==
    \E l \in (1..MaxSelects) \cup (CatUnderTest..NumCategories),
       p \in 1..pagesNeeded(DefaultMovieCount) : Respond(l, p)
NextExpand == ExpandClick \/ ExpandSelect \/ ExpandRespond
SpecExpand == InitExpand /\ [][NextExpand]_vars

HasButton(c) == c \in Range(dom) /\ button[c] # NoButton
AllCardsShowAll(c) == \A i \in 1..Len(grid[c]) : grid[c][i].showAll
NoCardShowsAll(c) == \A i \in 1..Len(grid[c]) : ~grid[c][i].showAll
LabelMatchesFlag(c) == (button[c].text = "Voir moins") <=> (button[c].expanded = "true")

\* C18: in every state of a category the show-more control reads "Voir moins"
\* exactly when its expanded flag is true; then every card rendered in the
\* grid carries show-all, and when it is collapsed no card carries it.
C18_UniformExpandState ==
    \A c \in CatIds : HasButton(c) =>
        /\ LabelMatchesFlag(c)
        /\ button[c].expanded = "true" => AllCardsShowAll(c)
        /\ button[c].expanded # "true" => NoCardShowsAll(c)

\* C18, the part that holds in every state: label and flag agree, and a
\* collapsed category has no card carrying show-all.
C18_LabelAndCollapsedCards ==
    \A c \in CatIds : HasButton(c) =>
        /\ LabelMatchesFlag(c)
        /\ button[c].expanded # "true" => NoCardShowsAll(c)

\* C18 witness: the control reads "Voir moins" with its flag true over a
\* rendered grid none of whose cards carries show-all.
C18_Witness ==
    /\ HasButton(CatUnderTest)
    /\ button[CatUnderTest] = [text |-> "Voir moins", expanded |-> "true"]
    /\ grid[CatUnderTest] # <<>>
    /\ NoCardShowsAll(CatUnderTest)

\* ------------------------------------------------ more claims on SpecAgg
\* the requested pages after the first that were answered with null
NullLaterPages == {p \in 2..Len(finished.responses) : ~finished.responses[p].value.ok}
\* what the backend holds on the pages that were answered with an envelope,
\* in page order
SuccessfulPagesResults ==
    Flatten([p \in 1..Len(finished.responses) |->
        IF p \in OkPages
        THEN BackendPage(finished.query, avail[finished.query], pageSize, p)
        ELSE <<>>])

\* C19: when page 1 is answered with an envelope and a later page with null,
\* the load is not reported failed; its list is the successful pages' results
\* in page order cut to count, and a non-empty list is rendered as the grid.
C19_LaterNullDegrades ==
    (Done /\ 1 \in OkPages /\ NullLaterPages # {}) =>
        /\ finished.outcome # "failed"
        /\ finished.movies = Slice(SuccessfulPagesResults, finished.count)
        /\ Len(finished.movies) > 0 =>
             /\ finished.outcome = "rendered"
             /\ GridMovies(finished.cat) = finished.movies

\* C19 witness: of two pages holding movies the second was answered with
\* null, and the grid shows page 1's movies alone, fewer than asked for.
C19_Witness ==
    /\ Done
    /\ Len(finished.responses) = 2
    /\ OkPages = {1}
    /\ HoldingPages = {1, 2}
    /\ finished.outcome = "rendered"
    /\ GridMovies(finished.cat)
         = BackendPage(finished.query, avail[finished.query], pageSize, 1)
    /\ Len(grid[finished.cat]) < finished.count

\* the pages of a load whose promise has settled
SettledPages(ld) == {p \in 1..Len(ld.responses) : ld.responses[p].settled}
\* ceil(count / 5), written out
CeilOfFifth(count) == (count + 4) \div 5

\* a load in progress or finished has one request per page 1..ceil(count/5),
\* each either in flight or settled; it is finished only with all settled
ExactPagesRequested(ld) ==
    /\ Len(ld.responses) = CeilOfFifth(ld.count)
    /\ ld.state = "waiting" =>
         /\ ld.inflight # {}
         /\ ld.inflight \cup SettledPages(ld) = 1..CeilOfFifth(ld.count)
         /\ ld.inflight \cap SettledPages(ld) = {}
    /\ ld.state = "done" => SettledPages(ld) = 1..CeilOfFifth(ld.count)

\* the call issues every page request at once, none answered yet, and no
\* request is added while the load waits
IssuedTogether ==
    /\ (loads[1].state = "idle" /\ loads'[1].state = "waiting") =>
          /\ loads'[1].inflight = 1..CeilOfFifth(loads'[1].count)
          /\ SettledPages(loads'[1]) = {}
    /\ loads[1].state = "waiting" =>
          /\ loads'[1].inflight \subseteq loads[1].inflight
          /\ (loads'[1].state = "done") = (Cardinality(loads[1].inflight) = 1)
          /\ loads'[1].state = "waiting" => (grid' = grid /\ finished' = finished)

\* C20: a call for count items requests exactly the pages 1..ceil(count/5),
\* all of them at the call and none later, and runs on only when every one
\* has settled; with 12 movies in pages of 5 and count 10, all answered, the
\* list is the 10 movies of pages 1 and 2.
C20_ExactlyCeilPages ==
    /\ [](ExactPagesRequested(loads[1]) /\ ExactPagesRequested(finished))
    /\ []((Done /\ finished.count = 10 /\ avail[finished.query] = 12
             /\ pageSize = 5 /\ OkPages = {1, 2})
           => finished.movies = BackendPage(finished.query, 12, 5, 1)
                                  \o BackendPage(finished.query, 12, 5, 2))
    /\ [][IssuedTogether]_vars

\* C20 witness: count 10 against 12 movies in pages of 5, both pages answered:
\* two requests were made and 10 movies are rendered.
C20_Witness ==
    /\ Done
    /\ finished.count = 10 /\ avail[finished.query] = 12 /\ pageSize = 5
    /\ Len(finished.responses) = 2
    /\ OkPages = {1, 2}
    /\ finished.outcome = "rendered"
    /\ Len(grid[finished.cat]) = 10
    /\ grid[finished.cat][10].movie.idx = 10

\* a step in which load 1 runs to its end having aggregated no movie although
\* its first page was answered with an envelope
FinishesWithNoMovies ==
    /\ loads[1].state = "waiting"
    /\ loads'[1].state = "done"
    /\ Len(finished'.responses) > 0
    /\ PageOk(finished'.responses[1].value)
    /\ Len(finished'.movies) = 0

\* C21: a load that aggregates zero movies renders nothing: the cards the
\* target grid held before are left as they were, not cleared.
C21_EmptyResultNoOp ==
    [][FinishesWithNoMovies => grid' = grid]_vars

\* C21 for displayCategoryMovies (categories.js): its zero-movies return
\* comes before the container is emptied.
C21_NoOpInCategories ==
    [][(impl = "categories" /\ FinishesWithNoMovies) => grid' = grid]_vars

\* C21 witness: displayCategoryMovies finished with page 1 answered and no
\* movie, and the grid still holds the cards it held before the call.
C21_Witness ==
    /\ impl = "categories"
    /\ Done
    /\ 1 \in OkPages
    /\ Len(finished.movies) = 0
    /\ finished.outcome = "empty"
    /\ grid[finished.cat] = PreviousCards

\* ------------------------------------------------ more claims on SpecApp
\* nothing of any category exists: no container, grid content or button, and
\* no titles request was ever issued
NothingCreated ==
    /\ dom = <<>>
    /\ \A l \in LoadIds : loads[l].state = "idle"
    /\ finished = IdleLoad
    /\ \A c \in CatIds : grid[c] = <<>> /\ button[c] = NoButton

\* fetchGenres, called by initializeCategories, has returned an empty list
GenresCameBackEmpty ==
    gen.pc = "returned" /\ gen.caller = "boot" /\ gen.allGenres = <<>>

\* C22: when fetchGenres returns an empty list, initializeCategories stops
\* before creating anything: no category container is added and no titles
\* request is issued, then or later, and the banner stays as it was rendered.
C22_NoGenresStopsInit ==
    /\ [](GenresCameBackEmpty => (boot.pc = "nogenres" /\ NothingCreated))
    /\ [][GenresCameBackEmpty' => banner' = banner]_vars

\* C22 witness: the banner was rendered, then the first genres page failed
\* although the backend has genres, and initialisation stopped.
C22_Witness ==
    /\ banner.pc = "done"
    /\ banner.outcome = "shown"
    /\ ngenres > 0
    /\ Len(gen.fetched) = 1
    /\ ~gen.fetched[1].ok
    /\ GenresCameBackEmpty
    /\ boot.pc = "nogenres"
    /\ NothingCreated

\* ------------------------------------------------ more claims on SpecCat
\* the cards of grid c come from one query, in the list order of its load
OneLoadsCards(c) ==
    /\ \A i, j \in 1..Len(grid[c]) : grid[c][i].movie.q = grid[c][j].movie.q
    /\ StrictlyIncreasing(GridMovies(c))
    /\ Len(grid[c]) <= DefaultMovieCount

\* a step leaves the movies of grid c as they were or replaces them, whole,
\* by the list of the load that ran to its end in that step
ReplacedWhole(c) ==
    \/ GridMovies(c)' = GridMovies(c)
    \/ /\ last'.ev = "respond"
       /\ last'.completed
       /\ finished'.state = "done"
       /\ finished'.cat = c
       /\ GridMovies(c)' = finished'.movies
       /\ Len(grid'[c]) <= finished'.count

\* C23: under any interleaving of overlapping loads into one grid, the grid
\* holds the cards of a single completed load, in that load's order and at
\* most count of them: every step keeps the grid's movies or replaces them
\* whole by the list of the load completing in it, never a mixture or a part.
C23_AtomicGridReplace ==
    /\ [](\A c \in CatIds : OneLoadsCards(c))
    /\ [][\A c \in CatIds : ReplacedWhole(c)]_vars

\* C23 witness: a load has rendered its six movies while a later selection's
\* load into the same grid is still waiting with a response already in.
C23_Witness ==
    /\ loads[1].state = "done"
    /\ loads[2].state = "waiting"
    /\ loads[2].cat = CatUnderTest
    /\ SettledPages(loads[2]) # {}
    /\ last.ev = "respond" /\ last.load = 1 /\ last.completed
    /\ finished.outcome = "rendered"
    /\ finished.query # loads[2].query
    /\ Len(grid[CatUnderTest]) = DefaultMovieCount
    /\ GridMovies(CatUnderTest) = finished.movies

====
